---- MODULE Spec2Model ----
(***************************************************************************)
(* Model of src/src/App.js: the resource library component.  The state is  *)
(* the component's useState cells, the position of the asynchronous        *)
(* fetchResources, and whether the filter recompute effect is scheduled.   *)
(* Strings that are searched (titles, search terms) are sequences of       *)
(* one-character strings; categorical attributes are plain strings.        *)
(***************************************************************************)
EXTENDS Integers, Sequences, FiniteSets, TLC

VARIABLES resources, filteredResources, searchTerm, filters, isLoading, error,
          selectedResource, pc, effectPending,
          requests, fetched, lastOp, lastOpened, lastSet

vars == <<resources, filteredResources, searchTerm, filters, isLoading, error,
          selectedResource, pc, effectPending,
          requests, fetched, lastOp, lastOpened, lastSet>>

(* ---------------------------- bounds ----------------------------------- *)
MaxLen == 2        \* longest collection the endpoint returns

(* ---------------------------- values ----------------------------------- *)
Null == "<null>"
Dims == {"topic", "type", "conference"}
ErrorMessage == "Failed to load resources. Please try again later."

NullResource ==
  [id |-> 0, title |-> <<>>, topic |-> Null, type |-> Null, conference |-> Null, url |-> Null]

Pool ==
  { [id |-> 1, title |-> <<"A", "b">>, topic |-> "CS", type |-> "book",     conference |-> "X", url |-> "u1"],
    [id |-> 2, title |-> <<"a">>,      topic |-> "AI", type |-> "video",    conference |-> "",  url |-> "u2"],
    [id |-> 3, title |-> <<"b", "A">>, topic |-> "",   type |-> "podcast",  conference |-> "X", url |-> "u3"],
    [id |-> 4, title |-> <<"b">>,      topic |-> "CS", type |-> "article",  conference |-> "Y", url |-> "u4"],
    [id |-> 5, title |-> <<>>,         topic |-> "AI", type |-> "activity", conference |-> "X", url |-> "u5"] }

\* every attribute value occurring in Pool
AttributeValues == UNION { { r.topic, r.type, r.conference } : r \in Pool }

SeqsUpTo(S, n) == UNION { [1..k -> S] : k \in 0..n }

\* JSON arrays the endpoint can serve: ids are unique within a collection
Collections ==
  { s \in SeqsUpTo(Pool, MaxLen) : \A i, j \in 1..Len(s) : i /= j => s[i].id /= s[j].id }

\* texts typed into the search box
Terms == { <<>>, <<"b">>, <<"a", "B">> }

Range(s) == { s[i] : i \in 1..Len(s) }

(* ------------------------ pure functions of the code ------------------- *)
LowerChar(c) == IF c = "A" THEN "a" ELSE IF c = "B" THEN "b" ELSE c

ToLowerCase(s) == [i \in 1..Len(s) |-> LowerChar(s[i])]

Includes(h, n) ==
  \E i \in 0..(Len(h) - Len(n)) : \A j \in 1..Len(n) : h[i + j] = n[j]

\* JavaScript truthiness of a filter selection: null and '' are falsy
Falsy(v) == v = Null \/ v = ""

Passes(r, term, f) ==
  /\ Includes(ToLowerCase(r.title), ToLowerCase(term))
  /\ (Falsy(f.topic) \/ r.topic = f.topic)
  /\ (Falsy(f.type) \/ r.type = f.type)
  /\ (Falsy(f.conference) \/ r.conference = f.conference)

Reverse(s) == [i \in 1..Len(s) |-> s[Len(s) + 1 - i]]

FilterResourcesReversed(rs, term, f) ==
  Reverse(SelectSeq(rs, LAMBDA r : Passes(r, term, f)))

FilterResources(rs, term, f) == SelectSeq(rs, LAMBDA r : Passes(r, term, f))

RECURSIVE Uniq(_)
Uniq(s) ==
  IF s = <<>> THEN <<>>
  ELSE LET p == Uniq(SubSeq(s, 1, Len(s) - 1))
           x == s[Len(s)]
       IN  IF x \in Range(p) THEN p ELSE Append(p, x)

\* [...new Set(rs.map(item => item[key]))]
UniqueValuesOf(rs, key) == Uniq([i \in 1..Len(rs) |-> rs[i][key]])

GetUniqueValuesOfView(key) == UniqueValuesOf(filteredResources, key)

GetUniqueValues(key) == UniqueValuesOf(resources, key)

NoFilters == [topic |-> Null, type |-> Null, conference |-> Null]

SetFilterNoSpread(prev, filterType, value) ==
  [d \in Dims |-> IF d = filterType THEN value ELSE Null]

SetFilter(prev, filterType, value) == [prev EXCEPT ![filterType] = value]

SetSelectedKeepFirst(prev, resource) ==
  IF prev = NullResource THEN resource ELSE prev

SetSelected(prev, resource) == resource

(* ------------------------------ rendering ------------------------------ *)
NoElement ==
  [tag |-> "none", src |-> Null, width |-> Null, height |-> Null,
   allow |-> Null, allowFullScreen |-> FALSE, title |-> <<>>]

MediaPermissions ==
  "accelerometer; autoplay; clipboard-write; encrypted-media; gyroscope; picture-in-picture"

DocumentFrame(r) ==
  [tag |-> "iframe", src |-> r.url, width |-> "100%", height |-> "500px",
   allow |-> Null, allowFullScreen |-> FALSE, title |-> r.title]

VideoFrame(r) ==
  [tag |-> "iframe", src |-> r.url, width |-> "560", height |-> "315",
   allow |-> MediaPermissions, allowFullScreen |-> TRUE, title |-> r.title]

Fallback ==
  [tag |-> "p: Unable to display this resource type.", src |-> Null, width |-> Null,
   height |-> Null, allow |-> Null, allowFullScreen |-> FALSE, title |-> <<>>]

RenderContentOfVideoAsDocument(sel) ==
  IF sel = NullResource THEN NoElement
  ELSE IF sel.type \in {"book", "article", "video", "activity"} THEN DocumentFrame(sel)
  ELSE Fallback

RenderContentOf(sel) ==
  IF sel = NullResource THEN NoElement
  ELSE IF sel.type \in {"book", "article"} THEN DocumentFrame(sel)
  ELSE IF sel.type = "video" THEN VideoFrame(sel)
  ELSE IF sel.type = "activity" THEN DocumentFrame(sel)
  ELSE Fallback

renderResourceContent == RenderContentOf(selectedResource)

\* what the component returns: the loading line, the error line or the library
ScreenIgnoringError == IF isLoading THEN "loading" ELSE "list"

Screen ==
  IF isLoading THEN "loading"
  ELSE IF error /= Null THEN "error"
  ELSE "list"

\* the cards on screen (one per entry of filteredResources)
Cards == IF Screen = "list" THEN filteredResources ELSE <<>>

\* header and body shared by every card's dialog
DialogView ==
  [title |-> selectedResource.title, type |-> selectedResource.type,
   content |-> renderResourceContent]

(* ------------------------------- Init ---------------------------------- *)
Init ==
  /\ resources = <<>>
  /\ filteredResources = <<>>
  /\ searchTerm = <<>>
  /\ filters = NoFilters
  /\ isLoading = TRUE
  /\ error = Null
  /\ selectedResource = NullResource
  /\ pc = "init"
  /\ effectPending = FALSE
  /\ requests = 0
  /\ fetched = <<>>
  /\ lastOp = "none"
  /\ lastOpened = NullResource
  /\ lastSet = NoFilters

(* ------------------------------ loader --------------------------------- *)
\* first commit: both effects run; the fetch is issued and the filter
\* effect recomputes the view of the (empty) collection
Mount ==
  /\ pc = "init"
  /\ pc' = "awaitFetch"
  /\ requests' = requests + 1
  /\ filteredResources' = FilterResources(resources, searchTerm, filters)
  /\ lastOp' = "mount"
  /\ UNCHANGED <<resources, searchTerm, filters, isLoading, error, selectedResource,
                 effectPending, fetched, lastOpened, lastSet>>

CatchHandlerKeepsLoading ==
  /\ error' = ErrorMessage
  /\ isLoading' = isLoading
  /\ pc' = "failed"
  /\ lastOp' = "fail"
  /\ UNCHANGED <<resources, filteredResources, searchTerm, filters, selectedResource,
                 effectPending, requests, fetched, lastOpened, lastSet>>

CatchHandler ==
  /\ error' = ErrorMessage
  /\ isLoading' = FALSE
  /\ pc' = "failed"
  /\ lastOp' = "fail"
  /\ UNCHANGED <<resources, filteredResources, searchTerm, filters, selectedResource,
                 effectPending, requests, fetched, lastOpened, lastSet>>

\* fetch rejects (transport error) or resolves with ok = false
FetchFail(kind) ==
  /\ pc = "awaitFetch"
  /\ kind \in {"transport", "notOk"}
  /\ CatchHandler

FetchOk ==
  /\ pc = "awaitFetch"
  /\ pc' = "awaitJson"
  /\ lastOp' = "response"
  /\ UNCHANGED <<resources, filteredResources, searchTerm, filters, isLoading, error,
                 selectedResource, effectPending, requests, fetched, lastOpened, lastSet>>

\* response.json() rejects
JsonFail ==
  /\ pc = "awaitJson"
  /\ CatchHandler

StoreDataViewOnly(data) ==
  /\ resources' = resources
  /\ filteredResources' = data
  /\ isLoading' = FALSE
  /\ error' = error

StoreData(data) ==
  /\ resources' = data
  /\ filteredResources' = data
  /\ isLoading' = FALSE
  /\ error' = error

JsonOk(data) ==
  /\ pc = "awaitJson"
  /\ StoreData(data)
  /\ pc' = "loaded"
  /\ effectPending' = TRUE
  /\ fetched' = data
  /\ lastOp' = "load"
  /\ UNCHANGED <<searchTerm, filters, selectedResource, requests, lastOpened, lastSet>>

(* --------------------------- filter effect ----------------------------- *)
RecomputeEffect ==
  /\ effectPending
  /\ filteredResources' = FilterResources(resources, searchTerm, filters)
  /\ effectPending' = FALSE
  /\ UNCHANGED <<resources, searchTerm, filters, isLoading, error, selectedResource,
                 pc, requests, fetched, lastOp, lastOpened, lastSet>>

(* ---------------------------- user events ------------------------------ *)
\* the controls exist only on the library screen; React flushes the
\* scheduled effect of a commit before the next event is rendered
Interactive == Screen = "list" /\ ~effectPending

HandleSearch(value) ==
  /\ Interactive
  /\ searchTerm' = value
  /\ effectPending' = (value /= searchTerm)
  /\ lastOp' = "search"
  /\ UNCHANGED <<resources, filteredResources, filters, isLoading, error, selectedResource,
                 pc, requests, fetched, lastOpened, lastSet>>

\* one dropdown item is clicked: "All ..." (null) or a value offered
HandleFilterChange(filterType, value) ==
  /\ Interactive
  /\ filters' = SetFilter(filters, filterType, value)
  /\ value \in {Null} \cup Range(GetUniqueValues(filterType))
  /\ effectPending' = TRUE
  /\ lastOp' = "filter"
  /\ lastSet' = [lastSet EXCEPT ![filterType] = value]
  /\ UNCHANGED <<resources, filteredResources, searchTerm, isLoading, error,
                 selectedResource, pc, requests, fetched, lastOpened>>

ResetValuesKeepSearch ==
  /\ filters' = NoFilters
  /\ searchTerm' = searchTerm

ResetValues ==
  /\ filters' = NoFilters
  /\ searchTerm' = <<>>

ResetFilters ==
  /\ Interactive
  /\ ResetValues
  /\ effectPending' = TRUE
  /\ lastOp' = "reset"
  /\ lastSet' = NoFilters
  /\ UNCHANGED <<resources, filteredResources, isLoading, error, selectedResource,
                 pc, requests, fetched, lastOpened>>

OpenResource(resource) ==
  /\ Interactive
  /\ resource \in Range(Cards)
  /\ selectedResource' = SetSelected(selectedResource, resource)
  /\ lastOp' = IF selectedResource \in {NullResource, resource} THEN "open" ELSE "replace"
  /\ lastOpened' = resource
  /\ UNCHANGED <<resources, filteredResources, searchTerm, filters, isLoading, error,
                 pc, effectPending, requests, fetched, lastSet>>

(* ------------------------------- Spec ---------------------------------- *)
Next ==
  \/ Mount
  \/ \E kind \in {"transport", "notOk"} : FetchFail(kind)
  \/ FetchOk
  \/ JsonFail
  \/ \E data \in Collections : JsonOk(data)
  \/ RecomputeEffect
  \/ \E value \in Terms : HandleSearch(value)
  \/ \E filterType \in Dims : \E value \in {Null} \cup AttributeValues :
        HandleFilterChange(filterType, value)
  \/ ResetFilters
  \/ \E resource \in Pool : OpenResource(resource)

Spec == Init /\ [][Next]_vars

(* ------------------------------ properties ----------------------------- *)
Loaded == pc = "loaded"

RECURSIVE IsSubseq(_, _)
IsSubseq(a, b) ==
  IF a = <<>> THEN TRUE
  ELSE IF b = <<>> THEN FALSE
  ELSE IF Head(a) = Head(b) THEN IsSubseq(Tail(a), Tail(b))
  ELSE IsSubseq(a, Tail(b))

\* t contains s when letter case is ignored
ContainsIgnoringCase(t, s) ==
  \E i \in 0..(Len(t) - Len(s)) :
     \A j \in 1..Len(s) : LowerChar(t[i + j]) = LowerChar(s[j])

Matches(r, term, f) ==
  /\ ContainsIgnoringCase(r.title, term)
  /\ \A d \in Dims : f[d] /= Null => r[d] = f[d]

\* every selection is null or a value the dropdown of its dimension offers
SelectionsOffered ==
  \A d \in Dims : filters[d] \in {Null} \cup Range(GetUniqueValues(d))

\* C1: once the recompute effect has run on a loaded collection, the
\* filtered view is exactly the resources, in collection order, whose title
\* contains the search term ignoring case and whose topic, type and
\* conference equal every non-null selection.
C1_FilteredViewIsExactMatch ==
  (Loaded /\ ~effectPending /\ SelectionsOffered) =>
     filteredResources = SelectSeq(resources, LAMBDA r : Matches(r, searchTerm, filters))

\* C2: resetFilters leaves the search term empty and all three selections
\* null in the same step, and once the recompute effect has run the filtered
\* view is the full loaded collection.
C2_ResetRestoresFullCollection ==
  lastOp = "reset" =>
     /\ searchTerm = <<>>
     /\ filters = NoFilters
     /\ (~effectPending => filteredResources = resources)

C2_Witness ==
  /\ lastOp = "reset"
  /\ ~effectPending
  /\ Len(resources) = MaxLen
  /\ filteredResources = resources
  /\ selectedResource /= NullResource

DistinctValues(rs, d) == { rs[i][d] : i \in 1..Len(rs) }

OfferedIsDistinctValues ==
  Loaded =>
     \A d \in Dims :
        /\ Range(GetUniqueValues(d)) = DistinctValues(fetched, d)
        /\ Len(GetUniqueValues(d)) = Cardinality(DistinctValues(fetched, d))

\* C3: after a successful load the values offered for each dimension are the
\* distinct values of that attribute over the full loaded collection, and no
\* search input, filter change, reset, selection or recompute changes them.
C3_OfferedValuesAreOfFullCollection ==
  /\ []OfferedIsDistinctValues
  /\ [][(Loaded /\ resources' /= resources) =>
          \A d \in Dims : UniqueValuesOf(resources', d) = UniqueValuesOf(resources, d)]_vars

C3_Witness ==
  /\ Loaded
  /\ ~effectPending
  /\ Len(GetUniqueValues("topic")) = 2
  /\ Len(filteredResources) = 1
  /\ filters.topic /= Null

\* C4: when the startup fetch fails, error is the user-facing message, the
\* collection and the filtered view are still empty and the error line is on
\* screen instead of the cards; before a successful load nothing is stored.
C4_FailureLeavesNothingLoaded ==
  /\ pc = "failed" =>
        /\ error = ErrorMessage
        /\ resources = <<>>
        /\ filteredResources = <<>>
        /\ Screen = "error"
        /\ Cards = <<>>
  /\ ~Loaded => (resources = <<>> /\ filteredResources = <<>> /\ Screen /= "list")

C4_Witness == pc = "failed" /\ lastOp = "fail" /\ requests = 1

Settled == pc \in {"loaded", "failed"}

SettledOutcome ==
  /\ (pc = "init") = (requests = 0)
  /\ requests <= 1
  /\ Settled = ~isLoading
  /\ Settled =>
        ((resources = fetched /\ error = Null) /= (error = ErrorMessage /\ resources = <<>>))

\* C5: one retrieval request is issued at startup and none later; when it
\* settles isLoading becomes false and stays false, and from then on either
\* the store holds the parsed collection with error null, or error is set
\* and the store is empty.
C5_OneRequestOneOutcome ==
  /\ []SettledOutcome
  /\ [][(~isLoading => ~isLoading') /\ (pc /= "init" => requests' = requests)]_vars

C5_Witness ==
  /\ Loaded
  /\ ~isLoading
  /\ requests = 1
  /\ Len(resources) = MaxLen
  /\ lastOp = "search"

\* C6: the selection is one optional resource; after openResource(A) and
\* then openResource(B) the selection and everything the dialog shows are
\* those of B.
C6_LastOpenedIsSoleSelection ==
  /\ selectedResource \in Pool \cup {NullResource}
  /\ lastOp \in {"open", "replace"} =>
        /\ selectedResource = lastOpened
        /\ DialogView = [title |-> lastOpened.title, type |-> lastOpened.type,
                         content |-> RenderContentOf(lastOpened)]

C6_Witness ==
  /\ lastOp = "replace"
  /\ selectedResource = lastOpened
  /\ selectedResource \in Range(Cards)

\* C7: resources is written only by the loader's success branch; afterwards
\* it equals the fetched collection in every state, and before that it is
\* empty.
C7_CollectionWrittenOnlyByLoader ==
  /\ [](IF Loaded THEN resources = fetched ELSE resources = <<>>)
  /\ [][resources' /= resources => (pc = "awaitJson" /\ pc' = "loaded")]_vars

C7_Witness ==
  /\ Loaded
  /\ Len(resources) = MaxLen
  /\ lastOp = "filter"
  /\ ~effectPending
  /\ Len(filteredResources) < Len(resources)

\* C8: renderResourceContent renders nothing without a selection, the url at
\* full width and 500px for book, article and activity, the url at 560 by
\* 315 with media permissions for video, and the fallback otherwise.
C8_RenderDispatchesOnType ==
  LET sel == selectedResource
      out == renderResourceContent
  IN  /\ sel = NullResource => out = NoElement
      /\ (sel /= NullResource /\ sel.type \in {"book", "article", "activity"}) =>
            /\ out.tag = "iframe" /\ out.src = sel.url
            /\ out.width = "100%" /\ out.height = "500px"
      /\ (sel /= NullResource /\ sel.type = "video") =>
            /\ out.tag = "iframe" /\ out.src = sel.url
            /\ out.width = "560" /\ out.height = "315"
            /\ out.allow = MediaPermissions
      /\ (sel /= NullResource /\ sel.type \notin {"book", "article", "activity", "video"}) =>
            out = Fallback

C8_Witness ==
  /\ selectedResource /= NullResource
  /\ selectedResource.type = "video"
  /\ renderResourceContent = VideoFrame(selectedResource)
  /\ lastOp = "replace"

\* C9: handleFilterChange(d, v) sets dimension d to v and leaves the other
\* two selections, the search term, the collection and the selection alone;
\* each dimension holds the last value set since the last reset, else null.
C9_FilterChangeTouchesOneDimension ==
  /\ [](filters = lastSet)
  /\ [][(lastOp' = "filter" /\ ~effectPending) =>
        \A d \in Dims : \A v \in {Null} \cup AttributeValues :
          HandleFilterChange(d, v) =>
             /\ filters'[d] = v
             /\ \A e \in Dims \ {d} : filters'[e] = filters[e]
             /\ UNCHANGED <<searchTerm, resources, selectedResource>>]_vars

C9_Witness ==
  /\ lastOp = "filter"
  /\ filters.topic /= Null
  /\ filters.type /= Null
  /\ searchTerm /= <<>>
  /\ selectedResource /= NullResource

\* C10: in every reachable state, also between a change and the run of the
\* recompute effect, filteredResources is a subsequence of resources.
C10_ViewIsSubsequence == IsSubseq(filteredResources, resources)

C10_Witness ==
  /\ effectPending
  /\ lastOp = "filter"
  /\ Len(resources) = MaxLen
  /\ Len(filteredResources) = 1
  /\ filteredResources /= FilterResources(resources, searchTerm, filters)

====
